---- MODULE Spec2Model ----
\* Model of shared/modules/Numeric.ts and shared/modules/conversion.utils.ts:
\* the Numeric value object, the `converter` pipeline and the facade helpers
\* built on it.
\*
\* A magnitude (a bignumber.js BigNumber) is a pair [m, e] denoting m * 10^e,
\* kept canonical (m = 0 => e = 0, otherwise m is not a multiple of 10), so
\* that equal values have equal representations.  Strings are sequences of
\* one-character strings.
EXTENDS Integers, Sequences, FiniteSets, TLC

\* ------------------------------------------------------------------------
\* bignumber.js arithmetic
\* ------------------------------------------------------------------------

\* bignumber.js default configuration: results of div (and of toString(base))
\* are rounded to DECIMAL_PLACES decimals with ROUNDING_MODE (ROUND_HALF_UP).
DECIMAL_PLACES == 20

ROUND_DOWN == "ROUND_DOWN"
ROUND_HALF_UP == "ROUND_HALF_UP"
ROUND_HALF_DOWN == "ROUND_HALF_DOWN"

Abs(n) == IF n < 0 THEN 0 - n ELSE n

Sgn(n) == IF n < 0 THEN 0 - 1 ELSE IF n = 0 THEN 0 ELSE 1

Min(a, b) == IF a < b THEN a ELSE b

RECURSIVE Pow10(_)
Pow10(k) == IF k <= 0 THEN 1 ELSE 10 * Pow10(k - 1)

RECURSIVE Canon(_, _)
Canon(m, e) ==
  IF m = 0 THEN [m |-> 0, e |-> 0]
  ELSE IF m % 10 = 0 THEN Canon(m \div 10, e + 1)
  ELSE [m |-> m, e |-> e]

Zero == [m |-> 0, e |-> 0]

One == [m |-> 1, e |-> 0]

\* m / 10^k rounded to an integer in the given mode.  A mantissa is below
\* 2^31 < 10^10, so for k >= 10 the quotient is below 1/2 and rounds to 0.
RoundMant(m, k, mode) ==
  IF k >= 10 THEN 0
  ELSE LET p == Pow10(k)
           a == Abs(m)
           q == a \div p
           r == a % p
           up == CASE mode = ROUND_DOWN -> FALSE
                   [] mode = ROUND_HALF_UP -> 2 * r >= p
                   [] mode = ROUND_HALF_DOWN -> 2 * r > p
       IN  Sgn(m) * (q + (IF up THEN 1 ELSE 0))

\* BigNumber.prototype.round(dp, rm)
BN_round(x, dp, mode) ==
  IF 0 - x.e <= dp THEN x
  ELSE Canon(RoundMant(x.m, (0 - x.e) - dp, mode), 0 - dp)

\* BigNumber.prototype.comparedTo: 1, 0 - 1 or 0.  With the smaller exponent
\* on the right, the left is compared with the right's digits above it; ten
\* or more digits apart the left is the larger in absolute value.
BN_comparedTo(a, b) ==
  IF Sgn(a.m) # Sgn(b.m) THEN (IF a.m > b.m THEN 1 ELSE 0 - 1)
  ELSE IF a.m = 0 THEN 0
  ELSE IF a.e < b.e
    THEN (IF b.e - a.e >= 10 THEN 0 - Sgn(b.m)
          ELSE LET p == Pow10(b.e - a.e)
                   q == Abs(a.m) \div p
               IN  IF q # Abs(b.m) THEN Sgn(a.m) * (IF q > Abs(b.m) THEN 1 ELSE 0 - 1)
                   ELSE IF Abs(a.m) % p # 0 THEN Sgn(a.m) ELSE 0)
  ELSE IF a.e - b.e >= 10 THEN Sgn(a.m)
  ELSE LET p == Pow10(a.e - b.e)
           q == Abs(b.m) \div p
       IN  IF q # Abs(a.m) THEN Sgn(a.m) * (IF Abs(a.m) > q THEN 1 ELSE 0 - 1)
           ELSE IF Abs(b.m) % p # 0 THEN 0 - Sgn(a.m) ELSE 0

BN_times(a, b) == Canon(a.m * b.m, a.e + b.e)

BN_negated(a) == [m |-> 0 - a.m, e |-> a.e]

BN_plus(a, b) ==
  LET e == Min(a.e, b.e)
  IN  Canon(a.m * Pow10(a.e - e) + b.m * Pow10(b.e - e), e)

BN_minus(a, b) == BN_plus(a, BN_negated(b))

\* The quotients the model represents: the divisor is not zero and the
\* quotient has a terminating decimal expansion of at most MaxShift more digits.
MaxShift == 4

\* the least k <= MaxShift with b.m dividing a.m * 10^k, or -1
RECURSIVE ExactShift(_, _, _)
ExactShift(a, b, k) ==
  IF (a.m * Pow10(k)) % Abs(b.m) = 0 THEN k
  ELSE IF k >= MaxShift THEN 0 - 1
  ELSE ExactShift(a, b, k + 1)

Divisible(a, b) == b.m # 0 /\ ExactShift(a, b, 0) >= 0

\* BigNumber.prototype.div: the quotient rounded to DECIMAL_PLACES, half up.
BN_div(a, b) ==
  LET k == ExactShift(a, b, 0)
      q == Canon((Sgn(b.m) * a.m * Pow10(k)) \div Abs(b.m), (a.e - b.e) - k)
  IN  BN_round(q, DECIMAL_PLACES, ROUND_HALF_UP)

\* ------------------------------------------------------------------------
\* Digit strings
\* ------------------------------------------------------------------------

HexChars == <<"0", "1", "2", "3", "4", "5", "6", "7", "8", "9",
              "a", "b", "c", "d", "e", "f">>

DecDigitChars == {HexChars[i] : i \in 1..10}

HexDigitChars == {HexChars[i] : i \in 1..16}

DigitVal(c) == (CHOOSE i \in 1..16 : HexChars[i] = c) - 1

RECURSIVE Repeat(_, _)
Repeat(c, n) == IF n <= 0 THEN <<>> ELSE <<c>> \o Repeat(c, n - 1)

\* Little-endian digit sequence ds (in the given radix) times k plus c.
RECURSIVE MulAdd(_, _, _, _)
MulAdd(ds, k, c, radix) ==
  IF ds = <<>> THEN (IF c = 0 THEN <<>> ELSE <<c % radix>> \o MulAdd(<<>>, k, c \div radix, radix))
  ELSE LET t == Head(ds) * k + c
       IN  <<t % radix>> \o MulAdd(Tail(ds), k, t \div radix, radix)

RECURSIVE Reverse(_)
Reverse(s) == IF s = <<>> THEN <<>> ELSE Reverse(Tail(s)) \o <<Head(s)>>

\* Little-endian digits of a natural number.
RECURSIVE NatDigits(_, _)
NatDigits(n, radix) == IF n = 0 THEN <<>> ELSE <<n % radix>> \o NatDigits(n \div radix, radix)

\* Big-endian characters of a little-endian digit sequence ("0" when empty).
DigitsToChars(ds) ==
  IF ds = <<>> THEN <<"0">>
  ELSE [i \in 1..Len(ds) |-> HexChars[Reverse(ds)[i] + 1]]

\* Value of a little-endian decimal digit sequence as a magnitude: trailing
\* zeros go to the exponent, the remaining digits are the mantissa.
RECURSIVE DecDigitsValue(_)
DecDigitsValue(ds) == IF ds = <<>> THEN 0 ELSE Head(ds) + 10 * DecDigitsValue(Tail(ds))

RECURSIVE DecDigitsToMag(_, _)
DecDigitsToMag(ds, e) ==
  IF ds = <<>> THEN Zero
  ELSE IF Head(ds) = 0 THEN DecDigitsToMag(Tail(ds), e + 1)
  ELSE Canon(DecDigitsValue(ds), e)

\* Big-endian digit values (radix `from`) to a little-endian sequence (radix `to`).
RECURSIVE Horner(_, _, _, _)
Horner(cs, acc, from, to) ==
  IF cs = <<>> THEN acc
  ELSE Horner(Tail(cs), MulAdd(acc, from, Head(cs), to), from, to)

RECURSIVE StripTrailingZeros(_)
StripTrailingZeros(ds) ==
  IF ds = <<>> THEN <<>>
  ELSE IF ds[Len(ds)] = 0 THEN StripTrailingZeros(SubSeq(ds, 1, Len(ds) - 1))
  ELSE ds

\* the decimal digits cs of a mantissa with the decimal point placed for
\* exponent e
DecPoint(cs, e) ==
  IF e >= 0 THEN cs \o Repeat("0", e)
  ELSE IF Len(cs) > 0 - e
    THEN SubSeq(cs, 1, Len(cs) + e) \o <<".">> \o SubSeq(cs, Len(cs) + e + 1, Len(cs))
  ELSE <<"0", ".">> \o Repeat("0", (0 - e) - Len(cs)) \o cs

\* fixed-point decimal characters of |x|
DecString(x) == DecPoint(DigitsToChars(NatDigits(Abs(x.m), 10)), x.e)

\* The first `count` hexadecimal digits (big-endian) of the fraction whose
\* decimal digits are the little-endian sequence f of fixed length n.
RECURSIVE FracHexDigits(_, _, _)
FracHexDigits(f, n, count) ==
  IF count = 0 THEN <<>>
  ELSE LET t == MulAdd(f, 16, 0, 10)
           d == IF Len(t) > n THEN DecDigitsValue(SubSeq(t, n + 1, Len(t))) ELSE 0
           pad == t \o Repeat(0, n - Len(t))
       IN  <<d>> \o FracHexDigits(SubSeq(pad, 1, n), n, count - 1)

\* The integer digits intHex and the fraction digits fd (one more than are
\* kept) rounded half up at DECIMAL_PLACES hexadecimal digits: little-endian,
\* the fraction in the first DECIMAL_PLACES places.
HexRounded(intHex, fd) ==
  LET kept == Reverse(SubSeq(fd, 1, DECIMAL_PLACES)) \o intHex
      bumped == IF fd[DECIMAL_PLACES + 1] >= 8 THEN MulAdd(kept, 1, 1, 16) ELSE kept
  IN  bumped \o Repeat(0, DECIMAL_PLACES - Len(bumped))

HexPoint(all) ==
  LET frac == StripTrailingZeros(Reverse(SubSeq(all, 1, DECIMAL_PLACES)))
      int == StripTrailingZeros(SubSeq(all, DECIMAL_PLACES + 1, Len(all)))
  IN  DigitsToChars(int)
        \o (IF frac = <<>> THEN <<>>
            ELSE <<".">> \o [i \in 1..Len(frac) |-> HexChars[frac[i] + 1]])

\* padded: the little-endian decimal digits of |x| with n fraction digits
HexOfDigits(padded, n) ==
  IF n = 0 THEN DigitsToChars(Horner(Reverse(padded), <<>>, 10, 16))
  ELSE HexPoint(HexRounded(Horner(Reverse(SubSeq(padded, n + 1, Len(padded))), <<>>, 10, 16),
                           FracHexDigits(SubSeq(padded, 1, n), n, DECIMAL_PLACES + 1)))

\* hexadecimal characters of |x|, the fraction rounded half up to
\* DECIMAL_PLACES hexadecimal digits (bignumber.js convertBase)
HexString(x) ==
  LET a == NatDigits(Abs(x.m), 10)
      n == IF x.e < 0 THEN 0 - x.e ELSE 0
  IN  HexOfDigits(IF x.e >= 0 THEN Repeat(0, x.e) \o a ELSE a \o Repeat(0, n - Len(a)), n)

Signed(negative, body) == IF negative /\ body # <<"0">> THEN <<"-">> \o body ELSE body

\* BigNumber.prototype.toString(base) with base 10 or 16
BN_toString(x, base) ==
  Signed(x.m < 0, IF base = 10 THEN DecString(BN_round(x, DECIMAL_PLACES, ROUND_HALF_UP))
                  ELSE HexString(x))

\* ------------------------------------------------------------------------
\* Magnitude parser (Numeric.ts)
\* ------------------------------------------------------------------------

\* Raw values are records [t, s, v]: t is the runtime type, s the text of a
\* string or the decimal text `${value}` of a number primitive, v the
\* magnitude of a BigNumber or BN.
StringValue(s) == [t |-> "string", s |-> s, v |-> Zero]

NumberValue(s) == [t |-> "number", s |-> s, v |-> Zero]

BigNumberValue(v) == [t |-> "BigNumber", s |-> <<>>, v |-> v]

BNValue(v) == [t |-> "BN", s |-> <<>>, v |-> v]

Undefined == [t |-> "undefined", s |-> <<>>, v |-> Zero]

Parsed(v) == [ok |-> TRUE, v |-> v]

ParseFailure == [ok |-> FALSE, v |-> Zero]

AllIn(s, chars) == \A i \in 1..Len(s) : s[i] \in chars

\* String.prototype.replace(c, ''): removes the first occurrence of c.
RECURSIVE RemoveFirst(_, _)
RemoveFirst(s, c) ==
  IF s = <<>> THEN <<>>
  ELSE IF Head(s) = c THEN Tail(s)
  ELSE <<Head(s)>> \o RemoveFirst(Tail(s), c)

\* String.prototype.split(c)
RECURSIVE Split(_, _)
Split(s, c) ==
  IF \A i \in 1..Len(s) : s[i] # c THEN <<s>>
  ELSE LET i == CHOOSE j \in 1..Len(s) : s[j] = c /\ \A k \in 1..(j - 1) : s[k] # c
       IN  <<SubSeq(s, 1, i - 1)>> \o Split(SubSeq(s, i + 1, Len(s)), c)

HasHexPrefix(s) == Len(s) >= 2 /\ s[1] = "0" /\ s[2] = "x"

\* @metamask/utils isHexString: /^(?:0x)?[0-9a-f]+$/iu
isHexString(s) ==
  LET body == IF HasHexPrefix(s) THEN SubSeq(s, 3, Len(s)) ELSE s
  IN  body # <<>> /\ AllIn(body, HexDigitChars)

stripHexPrefix(s) == IF HasHexPrefix(s) THEN SubSeq(s, 3, Len(s)) ELSE s

isHexStringOrNegatedHexString(s) == isHexString(RemoveFirst(s, "-")) \/ isHexString(s)

isDecimalHex(s) ==
  LET parts == Split(s, ".")
  IN  Len(parts) # 1 /\ \A i \in 1..Len(parts) : isHexStringOrNegatedHexString(parts[i])

DigitVals(s) == [i \in 1..Len(s) |-> DigitVal(s[i])]

RECURSIVE Pow625(_)
Pow625(k) == IF k <= 0 THEN 1 ELSE 625 * Pow625(k - 1)

NegatedIf(negative, parsed) ==
  IF negative /\ parsed.ok THEN Parsed(BN_negated(parsed.v)) ELSE parsed

\* the unsigned numeral split at "." read in base 16
BN_fromHexParts(parts) ==
  LET k == IF Len(parts) = 2 THEN Len(parts[2]) ELSE 0
      digits == IF Len(parts) = 2 THEN parts[1] \o parts[2] ELSE parts[1]
      int == DecDigitsToMag(Horner(DigitVals(digits), <<>>, 16, 10), 0)
  IN  IF /\ Len(parts) \in {1, 2}
         /\ \A i \in 1..Len(parts) : parts[i] # <<>> /\ AllIn(parts[i], HexDigitChars)
        THEN Parsed(BN_round(BN_times(int, Canon(Pow625(k), 0 - 4 * k)),
                             DECIMAL_PLACES, ROUND_HALF_UP))
      ELSE ParseFailure

\* new BigNumber(str, 16): /^-?[0-9a-f]+(?:\.[0-9a-f]+)?$/i read in base 16,
\* the fraction rounded to DECIMAL_PLACES; any other string is an error.
BN_fromHex(s) ==
  LET neg == s # <<>> /\ s[1] = "-"
  IN  NegatedIf(neg, BN_fromHexParts(Split(IF neg THEN Tail(s) ELSE s, ".")))

\* the unsigned numeral split at "." read in base 10
BN_fromDecParts(parts) ==
  LET k == IF Len(parts) = 2 THEN Len(parts[2]) ELSE 0
      digits == IF Len(parts) = 2 THEN parts[1] \o parts[2] ELSE parts[1]
  IN  IF /\ Len(parts) \in {1, 2}
         /\ \A i \in 1..Len(parts) : AllIn(parts[i], DecDigitChars)
         /\ \E i \in 1..Len(parts) : parts[i] # <<>>
        THEN Parsed(BN_round(DecDigitsToMag(Reverse(DigitVals(digits)), 0 - k),
                             DECIMAL_PLACES, ROUND_HALF_UP))
      ELSE ParseFailure

\* new BigNumber(str, 10): /^-?(\d+(\.\d*)?|\.\d+)$/ read in base 10 and
\* rounded to DECIMAL_PLACES; any other string is an error.
BN_fromDec(s) ==
  LET neg == s # <<>> /\ s[1] = "-"
  IN  NegatedIf(neg, BN_fromDecParts(Split(IF neg THEN Tail(s) ELSE s, ".")))

\* isFinite(parseInt(s, 10)): an optional sign followed by a decimal digit
ParseIntIsFinite(s) ==
  LET u == IF s # <<>> /\ s[1] \in {"-", "+"} THEN Tail(s) ELSE s
  IN  u # <<>> /\ u[1] \in DecDigitChars

\* mutant: the sign is dropped
hexadecimalToBigNumber_unsigned(s) == BN_fromHex(stripHexPrefix(RemoveFirst(s, "-")))

hexadecimalToBigNumber(s) ==
  NegatedIf(s # <<>> /\ s[1] = "-", BN_fromHex(stripHexPrefix(RemoveFirst(s, "-"))))

decimalToBigNumber(s) == BN_fromDec(s)

stringToBigNumber(s, numericBase) ==
  IF numericBase = 16 /\ (isHexStringOrNegatedHexString(s) \/ isDecimalHex(s))
    THEN hexadecimalToBigNumber(s)
  ELSE IF numericBase = 10 /\ ParseIntIsFinite(s) THEN decimalToBigNumber(s)
  ELSE ParseFailure

numberToBigNumber(s, numericBase) ==
  IF numericBase = 16 /\ isHexString(s) THEN BN_fromHex(s)
  ELSE BN_fromDec(s)

bnToBigNumber(value) == IF value.t = "BN" THEN Parsed(value.v) ELSE ParseFailure

valueToBigNumber(value, numericBase) ==
  IF value.t = "string" THEN stringToBigNumber(value.s, numericBase)
  ELSE IF value.t = "number" THEN numberToBigNumber(value.s, numericBase)
  ELSE bnToBigNumber(value)

\* ------------------------------------------------------------------------
\* Denomination scaler and the Numeric class (Numeric.ts)
\* ------------------------------------------------------------------------

WEI == "WEI"

GWEI == "GWEI"

ETH == "ETH"

\* `undefined` as a denomination, a currency or an option
undefined == "undefined"

EtherDenomination == {WEI, GWEI, ETH}

\* `undefined` as a base, and as a number of decimals
NoBase == 0

NoDecimals == 0 - 1

BIG_NUMBER_WEI_MULTIPLIER == [m |-> 1, e |-> 18]

BIG_NUMBER_GWEI_MULTIPLIER == [m |-> 1, e |-> 9]

BIG_NUMBER_ETH_MULTIPLIER == [m |-> 1, e |-> 0]

\* mutant: normalizing multiplies by the unit's multiplier
toNormalizedDenomination_times(denomination, bigNumber) ==
  CASE denomination = WEI -> BN_times(bigNumber, BIG_NUMBER_WEI_MULTIPLIER)
    [] denomination = GWEI -> BN_times(bigNumber, BIG_NUMBER_GWEI_MULTIPLIER)
    [] denomination = ETH -> BN_times(bigNumber, BIG_NUMBER_ETH_MULTIPLIER)

toNormalizedDenomination(denomination, bigNumber) ==
  CASE denomination = WEI -> BN_div(bigNumber, BIG_NUMBER_WEI_MULTIPLIER)
    [] denomination = GWEI -> BN_div(bigNumber, BIG_NUMBER_GWEI_MULTIPLIER)
    [] denomination = ETH -> BN_div(bigNumber, BIG_NUMBER_ETH_MULTIPLIER)

toSpecifiedDenomination(denomination, bigNumber) ==
  CASE denomination = WEI ->
         BN_round(BN_times(bigNumber, BIG_NUMBER_WEI_MULTIPLIER), 0, ROUND_HALF_UP)
    [] denomination = GWEI ->
         BN_round(BN_times(bigNumber, BIG_NUMBER_GWEI_MULTIPLIER), 9, ROUND_HALF_UP)
    [] denomination = ETH ->
         BN_round(BN_times(bigNumber, BIG_NUMBER_ETH_MULTIPLIER), 9, ROUND_HALF_UP)

\* A Numeric instance
NumericOf(value, base, denomination) ==
  [value |-> value, base |-> base, denomination |-> denomination]

\* The outcome of an operation that yields a Numeric or throws
Ok(numeric) == [err |-> "", num |-> numeric]

Throw(kind) == [err |-> kind, num |-> NumericOf(Zero, NoBase, undefined)]

\* the instance holding a parsed magnitude, or the parser's exception
NumericOfParsed(parsed, base, denomination) ==
  IF parsed.ok THEN Ok(NumericOf(parsed.v, base, denomination)) ELSE Throw("ParseError")

\* new Numeric(value, base, denomination)
Numeric(value, base, denomination) ==
  IF value.t = "BigNumber" THEN Ok(NumericOf(value.v, base, denomination))
  ELSE IF value.t = "undefined" THEN Ok(NumericOf(Zero, 10, denomination))
  ELSE IF base # NoBase
    THEN NumericOfParsed(valueToBigNumber(value, base), base, denomination)
  ELSE Throw("ParseError")

\* mutant: the magnitude is truncated to an integer when the base changes
toBase_integer(this, base) ==
  IF this.base # base
    THEN NumericOf(BN_round(this.value, 0, ROUND_DOWN), base, this.denomination)
  ELSE this

toBase(this, base) ==
  IF this.base # base THEN NumericOf(this.value, base, this.denomination)
  ELSE this

getValueInETH(this) ==
  IF this.denomination = ETH \/ this.denomination = undefined THEN this.value
  ELSE toNormalizedDenomination(this.denomination, this.value)

toDenomination(this, denomination) ==
  IF this.denomination # denomination
    THEN Ok(NumericOf(toSpecifiedDenomination(denomination, getValueInETH(this)),
                      this.base, denomination))
  ELSE Ok(this)

\* mutant: ties are rounded away from zero
round_halfUp(this, numberOfDecimals, roundingMode) ==
  IF numberOfDecimals # NoDecimals /\ numberOfDecimals # 0
    THEN NumericOf(BN_round(this.value, numberOfDecimals, ROUND_HALF_UP),
                   this.base, this.denomination)
  ELSE this

round(this, numberOfDecimals, roundingMode) ==
  IF numberOfDecimals # NoDecimals /\ numberOfDecimals # 0
    THEN NumericOf(BN_round(this.value, numberOfDecimals, roundingMode),
                   this.base, this.denomination)
  ELSE this

\* mutant: add carries the receiver's denomination
add_keepsDenomination(this, numeric) ==
  NumericOf(BN_plus(this.value, numeric.value), this.base, this.denomination)

add(this, numeric) == NumericOf(BN_plus(this.value, numeric.value), this.base, undefined)

minus(this, numeric) == NumericOf(BN_minus(this.value, numeric.value), this.base, undefined)

times(this, multiplier) ==
  NumericOf(BN_times(this.value, multiplier.value), this.base, this.denomination)

divide(this, divisor) ==
  NumericOf(BN_div(this.value, divisor.value), this.base, this.denomination)

Null == [t |-> "null", s |-> <<>>, v |-> Zero]

IsNullish(x) == x.t \in {"undefined", "null"}

\* this.times(conversionRate), the rate inverted first when asked; `given`
\* is the rate as a Numeric, or the exception of its constructor
timesConversionRate(this, given, invert) ==
  IF given.err # "" THEN given
  ELSE IF invert THEN Ok(times(this, divide(NumericOf(One, NoBase, undefined), given.num)))
  ELSE Ok(times(this, given.num))

\* mutant: no default for the rate
applyConversionRate_requiresRate(this, rate, invert) ==
  IF IsNullish(rate) THEN Throw("MissingRateError")
  ELSE timesConversionRate(this, Numeric(rate, 10, undefined), invert)

\* applyConversionRate(rate, invert): `rate ?? 1` read as a decimal
applyConversionRate(this, rate, invert) ==
  timesConversionRate(this,
    Numeric(IF IsNullish(rate) THEN NumberValue(<<"1">>) ELSE rate, 10, undefined), invert)

\* BigNumber.prototype.toString() without a base: exponential notation from
\* TO_EXP_NEG / TO_EXP_POS on, no rounding
TO_EXP_NEG == 0 - 7

TO_EXP_POS == 21

BN_toStringNoBase(x) ==
  LET cs == DigitsToChars(NatDigits(Abs(x.m), 10))
      sci == (Len(cs) - 1) + x.e
      expo == DigitsToChars(NatDigits(Abs(sci), 10))
      body == IF x.m # 0 /\ (sci <= TO_EXP_NEG \/ sci >= TO_EXP_POS)
                THEN <<cs[1]>> \o (IF Len(cs) > 1 THEN <<".">> \o Tail(cs) ELSE <<>>)
                     \o <<"e", (IF sci < 0 THEN "-" ELSE "+")>> \o expo
              ELSE DecString(x)
  IN  IF x.m < 0 THEN <<"-">> \o body ELSE body

\* this.value.toString(this.base)
toString(this) ==
  IF this.base = NoBase THEN BN_toStringNoBase(this.value)
  ELSE BN_toString(this.value, this.base)

toPrefixedHexString(this) ==
  LET str == BN_toString(this.value, 16)
  IN  IF HasHexPrefix(str) THEN str ELSE <<"0", "x">> \o str

\* ------------------------------------------------------------------------
\* Conversion facade (conversion.utils.ts)
\* ------------------------------------------------------------------------

\* What a facade call returns: a BigNumber (v), a string (s), the number
\* primitive 0, or a thrown error (err).
ReturnBigNumber(v) == [k |-> "BigNumber", v |-> v, s |-> <<>>, err |-> ""]

ReturnString(s) == [k |-> "string", v |-> Zero, s |-> s, err |-> ""]

ReturnNumber(v) == [k |-> "number", v |-> v, s |-> <<>>, err |-> ""]

\* a boolean is returned
ReturnBoolean(b) == [k |-> "boolean", v |-> IF b THEN One ELSE Zero, s |-> <<>>, err |-> ""]

Raise(kind) == [k |-> "error", v |-> Zero, s |-> <<>>, err |-> kind]

NumericBaseOf(numericBase) ==
  IF numericBase = "hex" THEN 16 ELSE IF numericBase = "dec" THEN 10 ELSE NoBase

\* mutant: the check forgets null
converterMissingRate_undefinedOnly(o) ==
  o.fromCurrency # o.toCurrency /\ o.conversionRate.t = "undefined"

\* converter throws when the currencies differ and conversionRate is null or
\* undefined
converterMissingRate(o) == o.fromCurrency # o.toCurrency /\ IsNullish(o.conversionRate)

\* The steps of converter each take `numeric`, the outcome of the steps
\* before: a Numeric, or the exception in flight, which they pass on.
converterRate(numeric, o) ==
  IF numeric.err # "" \/ o.fromCurrency = o.toCurrency THEN numeric
  ELSE IF converterMissingRate(o) THEN Throw("MissingRateError")
  ELSE applyConversionRate(numeric.num, o.conversionRate, o.invertConversionRate)

converterDenomination(numeric, o) ==
  IF numeric.err # "" THEN numeric
  ELSE IF o.toDenomination # undefined THEN toDenomination(numeric.num, o.toDenomination)
  ELSE IF o.fromDenomination # undefined THEN toDenomination(numeric.num, ETH)
  ELSE numeric

converterNumberOfDecimals(numeric, o) ==
  IF numeric.err = "" /\ o.numberOfDecimals # NoDecimals
    THEN Ok(round(numeric.num, o.numberOfDecimals, ROUND_HALF_DOWN))
  ELSE numeric

converterRoundDown(numeric, o) ==
  IF numeric.err = "" /\ o.roundDown # NoDecimals /\ o.roundDown # 0
    THEN Ok(round(numeric.num, o.roundDown, ROUND_DOWN))
  ELSE numeric

converterReturn(numeric, toBase_) ==
  IF numeric.err # "" THEN Raise(numeric.err)
  ELSE IF toBase_ # NoBase THEN ReturnString(toString(toBase(numeric.num, toBase_)))
  ELSE ReturnBigNumber(numeric.num.value)

converter(value, o) ==
  converterReturn(
    converterRoundDown(
      converterNumberOfDecimals(
        converterDenomination(
          converterRate(
            Numeric(value, NumericBaseOf(o.fromNumericBase), o.fromDenomination), o),
          o),
        o),
      o),
    NumericBaseOf(o.toNumericBase))

\* JavaScript truthiness of a raw value
IsFalsy(x) ==
  \/ IsNullish(x)
  \/ x.t = "string" /\ x.s = <<>>
  \/ x.t = "number" /\ BN_fromDec(x.s).ok /\ BN_fromDec(x.s).v = Zero

\* mutant: the guard tests `conversionRate === undefined` instead of falsiness
conversionUtil_guardUndefinedOnly(value, o) ==
  LET toCurrency == IF o.toCurrency = undefined THEN o.fromCurrency ELSE o.toCurrency
  IN  IF o.fromCurrency # toCurrency /\ o.conversionRate.t = "undefined"
        THEN ReturnNumber(Zero)
      ELSE converter(IF IsFalsy(value) THEN StringValue(<<"0">>) ELSE value,
                     [o EXCEPT !.toCurrency = toCurrency, !.roundDown = NoDecimals])

conversionUtil(value, o) ==
  LET toCurrency == IF o.toCurrency = undefined THEN o.fromCurrency ELSE o.toCurrency
  IN  IF o.fromCurrency # toCurrency /\ IsFalsy(o.conversionRate) THEN ReturnNumber(Zero)
      ELSE converter(IF IsFalsy(value) THEN StringValue(<<"0">>) ELSE value,
                     [o EXCEPT !.toCurrency = toCurrency, !.roundDown = NoDecimals])

\* mutant: a base of 1 passes
isValidBase_atLeastOne(base) == base >= 1

\* Number.isInteger(base) && base > 1; the bases of the model are integers,
\* a missing base is NoBase
isValidBase(base) == base > 1

\* new BigNumber(text, base) for the bases the model reads
BN_fromBase(s, base) == IF base = 16 THEN BN_fromHex(s) ELSE BN_fromDec(s)

\* mutant: the operand is read as a decimal whatever its base
getBigNumber_decimal(value, base) ==
  IF value.t = "BigNumber" THEN BN_fromBase(BN_toStringNoBase(value.v), 10)
  ELSE BN_fromBase(value.s, 10)

getBigNumber(value, base) ==
  IF value.t = "BigNumber" THEN BN_fromBase(BN_toStringNoBase(value.v), base)
  ELSE BN_fromBase(value.s, base)

\* addCurrencies, subtractCurrencies, multiplyCurrencies and divideCurrencies
\* differ in the BigNumber operation only: opCurrencies(op, ...) is the helper
\* of that operation.
Arith(op, x, y) ==
  CASE op = "add" -> BN_plus(x, y)
    [] op = "subtract" -> BN_minus(x, y)
    [] op = "multiply" -> BN_times(x, y)
    [] op = "divide" -> BN_div(x, y)

opCurrencies(op, a, b, aBase, bBase, o) ==
  IF ~isValidBase(aBase) \/ ~isValidBase(bBase) THEN Raise("ArgumentError")
  ELSE LET x == getBigNumber(a, aBase)
           y == getBigNumber(b, bBase)
       IN  IF ~x.ok \/ ~y.ok THEN Raise("ParseError")
           ELSE converter(BigNumberValue(Arith(op, x.v, y.v)), o)

\* numeric.applyConversionRate(rate, invert) when the currencies differ;
\* `numeric` is a Numeric or the exception in flight
whenCurrenciesDiffer(differ, numeric, rate, invert) ==
  IF numeric.err # "" \/ ~differ THEN numeric
  ELSE applyConversionRate(numeric.num, rate, invert)

decWEIToDecETH(decWEI) ==
  LET numeric == Numeric(decWEI, 10, WEI)
  IN  IF numeric.err # "" THEN Raise(numeric.err)
      ELSE ReturnString(toString(toDenomination(numeric.num, ETH).num))

getWeiHexFromDecimalValue(value, conversionRate, fromDenomination, fromCurrency, invertConversionRate) ==
  LET numeric ==
        whenCurrenciesDiffer(fromCurrency # ETH, Numeric(value, 10, fromDenomination),
          IF conversionRate.t = "undefined" THEN NumberValue(<<"1">>) ELSE conversionRate,
          invertConversionRate)
  IN  IF numeric.err # "" THEN Raise(numeric.err)
      ELSE ReturnString(toString(toDenomination(toBase(numeric.num, 16), WEI).num))

getValueFromWeiHex(value, fromCurrencyArg, toCurrency, conversionRate, numberOfDecimals, toDenominationArg) ==
  LET fromCurrency == IF fromCurrencyArg = undefined THEN ETH ELSE fromCurrencyArg
      toDenomination_ == IF toDenominationArg = undefined THEN ETH ELSE toDenominationArg
      numeric == whenCurrenciesDiffer(fromCurrency # toCurrency, Numeric(value, 16, WEI),
                                      conversionRate, FALSE)
  IN  IF numeric.err # "" THEN Raise(numeric.err)
      ELSE ReturnString(toString(round(toDenomination(toBase(numeric.num, 10), toDenomination_).num,
                                       numberOfDecimals, ROUND_HALF_DOWN)))

\* mutant: conversionMax returns the first value on a tie
conversionCompared_maxFirstOnTie(fn, firstValue, secondValue, firstProps, secondProps) ==
  IF firstValue.err # "" THEN firstValue
  ELSE IF secondValue.err # "" THEN secondValue
  ELSE LET c == BN_comparedTo(firstValue.v, secondValue.v)
           max == IF c >= 0 THEN firstProps.value ELSE secondProps.value
       IN  CASE fn = "conversionGreaterThan" -> ReturnBoolean(c > 0)
             [] fn = "conversionLessThan" -> ReturnBoolean(c < 0)
             [] fn = "conversionGTE" -> ReturnBoolean(c >= 0)
             [] fn = "conversionLTE" -> ReturnBoolean(c <= 0)
             [] fn = "conversionMax" -> [k |-> max.t, v |-> max.v, s |-> max.s, err |-> ""]

\* what a comparison helper returns on the two values `converter` returned:
\* gt, lt, greaterThanOrEqualTo or lessThanOrEqualTo of the two, and for
\* conversionMax the `value` of the props whose conversion is greater, the
\* second unless the first is greater
conversionCompared(fn, firstValue, secondValue, firstProps, secondProps) ==
  IF firstValue.err # "" THEN firstValue
  ELSE IF secondValue.err # "" THEN secondValue
  ELSE LET c == BN_comparedTo(firstValue.v, secondValue.v)
           max == IF c > 0 THEN firstProps.value ELSE secondProps.value
       IN  CASE fn = "conversionGreaterThan" -> ReturnBoolean(c > 0)
             [] fn = "conversionLessThan" -> ReturnBoolean(c < 0)
             [] fn = "conversionGTE" -> ReturnBoolean(c >= 0)
             [] fn = "conversionLTE" -> ReturnBoolean(c <= 0)
             [] fn = "conversionMax" -> [k |-> max.t, v |-> max.v, s |-> max.s, err |-> ""]

\* conversionGreaterThan, conversionLessThan, conversionMax, conversionGTE,
\* conversionLTE: each calls `converter` on the first props, then on the second
conversionComparison(fn, firstProps, secondProps) ==
  conversionCompared(fn, converter(firstProps.value, firstProps.o),
                     converter(secondProps.value, secondProps.o), firstProps, secondProps)

\* new Numeric(a, 16).minus(new Numeric(b, 16)).round(6, ROUND_HALF_DOWN).toString()
subtractHexes(aHexWEI, bHexWEI) ==
  LET a == Numeric(aHexWEI, 16, undefined)
      b == Numeric(bHexWEI, 16, undefined)
  IN  IF a.err # "" THEN Raise(a.err)
      ELSE IF b.err # "" THEN Raise(b.err)
      ELSE ReturnString(toString(round(minus(a.num, b.num), 6, ROUND_HALF_DOWN)))

\* new Numeric(a, 16).add(new Numeric(b, 16)).round(6, ROUND_HALF_DOWN).toString()
addHexes(aHexWEI, bHexWEI) ==
  LET a == Numeric(aHexWEI, 16, undefined)
      b == Numeric(bHexWEI, 16, undefined)
  IN  IF a.err # "" THEN Raise(a.err)
      ELSE IF b.err # "" THEN Raise(b.err)
      ELSE ReturnString(toString(round(add(a.num, b.num), 6, ROUND_HALF_DOWN)))

\* args.reduce((acc, hexAmount) => acc.add(new Numeric(hexAmount, 16)), firstValue),
\* then toPrefixedHexString(): no rounding, and the prefix goes in front of
\* whatever BigNumber.toString(16) printed
sumHexes(first, args) ==
  LET RECURSIVE reduce(_, _)
      reduce(acc, rest) ==
        IF acc.err # "" \/ rest = <<>> THEN acc
        ELSE LET hexAmount == Numeric(Head(rest), 16, undefined)
             IN  IF hexAmount.err # "" THEN hexAmount
                 ELSE reduce(Ok(add(acc.num, hexAmount.num)), Tail(rest))
      total == reduce(Numeric(first, 16, undefined), args)
  IN  IF total.err # "" THEN Raise(total.err)
      ELSE ReturnString(toPrefixedHexString(total.num))

\* ------------------------------------------------------------------------
\* State machine
\* ------------------------------------------------------------------------

\* call: the last facade call, its arguments and what it returned.
\* heap: the Numeric instances alive, by reference; constructed: the fields
\* each had when its constructor returned; last: the last Numeric method call.
VARIABLES call, heap, constructed, last

vars == <<call, heap, constructed, last>>

\* Largest numberOfDecimals / roundDown a caller passes
MaxDecimals == 1

\* Number of Numeric instances alive together
MaxHeap == 3

\* Number of instances constructed from raw input, before any method is called
MaxRoots == 2

Chars(str) ==
  CASE str = "" -> <<>>
    [] str = "0" -> <<"0">>
    [] str = "1" -> <<"1">>
    [] str = "2" -> <<"2">>
    [] str = "10" -> <<"1", "0">>
    [] str = "12" -> <<"1", "2">>
    [] str = "15" -> <<"1", "5">>
    [] str = "1000" -> <<"1", "0", "0", "0">>
    [] str = "1.25" -> <<"1", ".", "2", "5">>
    [] str = "-2.6" -> <<"-", "2", ".", "6">>
    [] str = "0x10" -> <<"0", "x", "1", "0">>
    [] str = "0.5" -> <<"0", ".", "5">>
    [] str = "-0x10" -> <<"-", "0", "x", "1", "0">>
    [] str = "g" -> <<"g">>
    [] str = ".5" -> <<".", "5">>
    [] str = "-0.5" -> <<"-", "0", ".", "5">>
    [] str = "12abc" -> <<"1", "2", "a", "b", "c">>
    [] str = "abc" -> <<"a", "b", "c">>
    [] str = "Infinity" -> <<"I", "n", "f", "i", "n", "i", "t", "y">>
    [] str = "100" -> <<"1", "0", "0">>
    [] str = "-10" -> <<"-", "1", "0">>
    [] str = "1-0" -> <<"1", "-", "0">>
    [] str = "1.8" -> <<"1", ".", "8">>
    [] str = "ff" -> <<"f", "f">>
    [] str = "0x1.8" -> <<"0", "x", "1", ".", "8">>

NoOptions ==
  [fromNumericBase |-> undefined, toNumericBase |-> undefined,
   fromDenomination |-> undefined, toDenomination |-> undefined,
   fromCurrency |-> undefined, toCurrency |-> undefined,
   numberOfDecimals |-> NoDecimals, conversionRate |-> Undefined,
   invertConversionRate |-> FALSE, roundDown |-> NoDecimals]

NumericBases == {undefined, "dec", "hex"}

Denominations == {undefined} \cup EtherDenomination

Currencies == {undefined, "ETH", "USD"}

Decimals == {NoDecimals} \cup (0..MaxDecimals)

\* conversion rates: absent, null, or a positive number
Rates == {Undefined, Null, NumberValue(Chars("2"))}

\* roundDown is read only when truthy: absent, or a positive number of places
RoundDowns == {NoDecimals} \cup (1..MaxDecimals)

AllOptions ==
  [fromNumericBase : NumericBases, toNumericBase : NumericBases,
   fromDenomination : {undefined, WEI}, toDenomination : {undefined, WEI, ETH},
   fromCurrency : {undefined, "ETH"}, toCurrency : Currencies,
   numberOfDecimals : Decimals, conversionRate : Rates,
   invertConversionRate : BOOLEAN, roundDown : RoundDowns]

\* invertConversionRate is passed together with a rate
Options == {o \in AllOptions : o.invertConversionRate => o.conversionRate.t = "number"}

\* the options of the two-operand helpers the model varies
HelperOptions ==
  {o \in Options : /\ o.fromNumericBase = undefined
                   /\ o.fromDenomination = undefined
                   /\ o.toDenomination \in {undefined, WEI}
                   /\ o.numberOfDecimals = NoDecimals
                   /\ o.roundDown = NoDecimals
                   /\ ~o.invertConversionRate}

Values ==
  {StringValue(Chars("10")), StringValue(Chars("1.25")), StringValue(Chars("g")),
   StringValue(Chars("")),
   BigNumberValue([m |-> 495, e |-> 0 - 3])}

Operands ==
  {NumberValue(Chars("0")), NumberValue(Chars("10")), StringValue(Chars("12")),
   NumberValue(Chars("15")), NumberValue(Chars("1000")), StringValue(Chars("g"))}

\* an operand base: missing, 1, or a base the operands are read in
OperandBases == {NoBase, 1, 10, 16}

Ops == {"add", "subtract", "multiply", "divide"}

NoCall ==
  [fn |-> "", a |-> Undefined, b |-> Undefined, aBase |-> NoBase, bBase |-> NoBase,
   o |-> NoOptions, result |-> Raise("")]

Call(fn, a, b, aBase, bBase, o, result) ==
  [fn |-> fn, a |-> a, b |-> b, aBase |-> aBase, bBase |-> bBase, o |-> o,
   result |-> result]

NoLast ==
  [op |-> "", this |-> 0, other |-> 0, base |-> NoBase, denomination |-> undefined,
   places |-> NoDecimals, ret |-> 0, err |-> ""]

Init ==
  /\ call = NoCall
  /\ heap = <<>>
  /\ constructed = <<>>
  /\ last = NoLast

ConversionUtil ==
  /\ call.fn = ""
  /\ \E value \in Values, o \in Options :
       /\ call' = Call("conversionUtil", value, Undefined, NoBase, NoBase, o,
                       conversionUtil(value, o))
       /\ UNCHANGED <<heap, constructed, last>>

\* the operands of a division the model represents
CanApply(op, a, b, aBase, bBase) ==
  op = "divide" /\ isValidBase(aBase) /\ isValidBase(bBase)
    /\ getBigNumber(a, aBase).ok /\ getBigNumber(b, bBase).ok
  => Divisible(getBigNumber(a, aBase).v, getBigNumber(b, bBase).v)

OpCurrencies ==
  /\ call.fn = ""
  /\ \E op \in Ops, a \in Operands, b \in Operands, aBase \in OperandBases,
        bBase \in OperandBases, o \in HelperOptions :
       /\ CanApply(op, a, b, aBase, bBase)
       /\ call' = Call(op, a, b, aBase, bBase, o, opCurrencies(op, a, b, aBase, bBase, o))
       /\ UNCHANGED <<heap, constructed, last>>

DecWEIToDecETH ==
  /\ call.fn = ""
  /\ \E value \in Values :
       /\ call' = Call("decWEIToDecETH", value, Undefined, NoBase, NoBase, NoOptions,
                       decWEIToDecETH(value))
       /\ UNCHANGED <<heap, constructed, last>>

GetWeiHexFromDecimalValue ==
  /\ call.fn = ""
  /\ \E value \in Values, rate \in Rates, fromDenomination \in Denominations,
        fromCurrency \in Currencies, invert \in BOOLEAN :
       /\ call' = Call("getWeiHexFromDecimalValue", value, Undefined, NoBase, NoBase,
                       [NoOptions EXCEPT !.conversionRate = rate,
                                         !.fromDenomination = fromDenomination,
                                         !.fromCurrency = fromCurrency,
                                         !.invertConversionRate = invert],
                       getWeiHexFromDecimalValue(value, rate, fromDenomination,
                                                 fromCurrency, invert))
       /\ UNCHANGED <<heap, constructed, last>>

GetValueFromWeiHex ==
  /\ call.fn = ""
  /\ \E value \in Values, fromCurrency \in Currencies, toCurrency \in Currencies,
        rate \in Rates, numberOfDecimals \in Decimals, toDenomination_ \in Denominations :
       /\ call' = Call("getValueFromWeiHex", value, Undefined, NoBase, NoBase,
                       [NoOptions EXCEPT !.fromCurrency = fromCurrency,
                                         !.toCurrency = toCurrency,
                                         !.conversionRate = rate,
                                         !.numberOfDecimals = numberOfDecimals,
                                         !.toDenomination = toDenomination_],
                       getValueFromWeiHex(value, fromCurrency, toCurrency, rate,
                                          numberOfDecimals, toDenomination_))
       /\ UNCHANGED <<heap, constructed, last>>

\* the props of the comparison helpers: a value and its options, without
\* toNumericBase
ComparedProps ==
  [value : {StringValue(Chars("10")), StringValue(Chars("0x10")), StringValue(Chars("12")),
            StringValue(Chars("g")), BigNumberValue([m |-> 495, e |-> 0 - 3])},
   o : {o \in Options : /\ o.toNumericBase = undefined /\ o.fromNumericBase # undefined
                        /\ o.fromDenomination = undefined /\ o.toDenomination = undefined
                        /\ o.fromCurrency = undefined /\ o.toCurrency \in {undefined, "USD"}
                        /\ o.numberOfDecimals \in {NoDecimals, 1}
                        /\ o.conversionRate \in {Undefined, NumberValue(Chars("2"))}
                        /\ o.conversionRate = Undefined \/ o.toCurrency = "USD"
                        /\ ~o.invertConversionRate /\ o.roundDown = NoDecimals}]

\* `a` and `b` keep the two props
ConversionComparison ==
  /\ call.fn = ""
  /\ \E fn \in {"conversionGreaterThan", "conversionLessThan", "conversionMax",
                 "conversionGTE", "conversionLTE"},
        firstProps \in ComparedProps, secondProps \in ComparedProps :
       /\ call' = Call(fn, firstProps, secondProps, NoBase, NoBase, NoOptions,
                       conversionComparison(fn, firstProps, secondProps))
       /\ UNCHANGED <<heap, constructed, last>>

\* hexadecimal amounts a caller passes: plain, prefixed, negative,
\* fractional, and one that is not a numeral
HexOperands ==
  {StringValue(Chars(str)) : str \in {"0", "2", "10", "0x10", "-10", "-0x10", "ff", "1.8", "g"}}

\* the longest list of further operands given to sumHexes
MaxArgs == 2

\* `a` keeps the first operand, `b` the list of the others
AddSubtractHexes ==
  /\ call.fn = ""
  /\ \E fn \in {"addHexes", "subtractHexes"}, aHexWEI \in HexOperands, bHexWEI \in HexOperands :
       /\ call' = Call(fn, aHexWEI, <<bHexWEI>>, 16, 16, NoOptions,
                       IF fn = "addHexes" THEN addHexes(aHexWEI, bHexWEI)
                       ELSE subtractHexes(aHexWEI, bHexWEI))
       /\ UNCHANGED <<heap, constructed, last>>

SumHexes ==
  /\ call.fn = ""
  /\ \E first \in HexOperands, n \in 0..MaxArgs :
       \E args \in [1..n -> HexOperands] :
         /\ call' = Call("sumHexes", first, args, 16, 16, NoOptions, sumHexes(first, args))
         /\ UNCHANGED <<heap, constructed, last>>

\* the synchronous call returns and its result is consumed by the caller
Return ==
  /\ call.fn # ""
  /\ call' = NoCall
  /\ UNCHANGED <<heap, constructed, last>>

Next ==
  \/ Return
  \/ ConversionUtil
  \/ OpCurrencies
  \/ DecWEIToDecETH
  \/ GetWeiHexFromDecimalValue
  \/ GetValueFromWeiHex
  \/ ConversionComparison
  \/ AddSubtractHexes
  \/ SumHexes

Spec == Init /\ [][Next]_vars

\* ------------------------------------------------------------------------
\* Numeric instances by reference
\* ------------------------------------------------------------------------

\* Largest mantissa and exponent gap the arithmetic of the model takes
MantCap == 9999

ExpGap == 5

RootValues ==
  {StringValue(Chars("1.25")), StringValue(Chars("g")), Undefined,
   BigNumberValue([m |-> 495, e |-> 0 - 12]), BigNumberValue([m |-> 6, e |-> 8]),
   BigNumberValue([m |-> 0 - 125, e |-> 0 - 2])}

Bases == {10, 16}

RoundingModes == {ROUND_HALF_DOWN, ROUND_DOWN}

Last(op, this, other, base, denomination, places, ret, err) ==
  [op |-> op, this |-> this, other |-> other, base |-> base,
   denomination |-> denomination, places |-> places, ret |-> ret, err |-> err]

\* The method returned a newly constructed instance.
ReturnsNew(numeric, l) ==
  /\ heap' = Append(heap, numeric)
  /\ constructed' = Append(constructed, numeric)
  /\ last' = [l EXCEPT !.ret = Len(heap) + 1]

\* The method returned its receiver.
ReturnsThis(l) ==
  /\ last' = [l EXCEPT !.ret = l.this]
  /\ UNCHANGED <<heap, constructed>>

Throws(l, kind) ==
  /\ last' = [l EXCEPT !.err = kind]
  /\ UNCHANGED <<heap, constructed>>

Instances == 1..Len(heap)

CanAllocate == Len(heap) < MaxHeap

\* new Numeric(value, base, denomination) on raw input
NumericNew ==
  /\ Len(heap) < MaxRoots
  /\ heap = <<>> \/ (last.op = "new" /\ last.err = "")
  /\ \E value \in RootValues, base \in {NoBase} \cup Bases, denomination \in Denominations :
       LET n == Numeric(value, base, denomination)
           l == Last("new", 0, 0, base, denomination, NoDecimals, 0, "")
       IN  /\ IF n.err # "" THEN Throws(l, n.err) ELSE ReturnsNew(n.num, l)
           /\ UNCHANGED call

ToBase ==
  /\ CanAllocate
  /\ \E i \in Instances, base \in Bases :
       LET l == Last("toBase", i, 0, base, undefined, NoDecimals, 0, "")
       IN  /\ IF heap[i].base # base THEN ReturnsNew(toBase(heap[i], base), l)
              ELSE ReturnsThis(l)
           /\ UNCHANGED call

\* setDenomination assigns the field of the receiver and returns the receiver.
\* Callers chain it on the Numeric just returned, constructed without a
\* denomination.
SetDenomination ==
  \E i \in Instances \cap {last.ret}, denomination \in EtherDenomination :
    /\ heap[i].denomination = undefined
    /\ heap' = [heap EXCEPT ![i].denomination = denomination]
    /\ last' = Last("setDenomination", i, 0, NoBase, denomination, NoDecimals, i, "")
    /\ UNCHANGED <<constructed, call>>

ToDenomination ==
  /\ CanAllocate
  /\ \E i \in Instances, denomination \in EtherDenomination :
       LET l == Last("toDenomination", i, 0, NoBase, denomination, NoDecimals, 0, "")
           r == toDenomination(heap[i], denomination)
       IN  /\ IF r.err # "" THEN Throws(l, r.err)
              ELSE IF heap[i].denomination # denomination THEN ReturnsNew(r.num, l)
              ELSE ReturnsThis(l)
           /\ UNCHANGED call

Round ==
  /\ CanAllocate
  /\ \E i \in Instances, places \in Decimals, mode \in RoundingModes :
       LET l == Last(mode, i, 0, NoBase, undefined, places, 0, "")
       IN  /\ IF places # NoDecimals /\ places # 0
                THEN ReturnsNew(round(heap[i], places, mode), l)
              ELSE ReturnsThis(l)
           /\ UNCHANGED call

SmallMant(i) == Abs(heap[i].value.m) <= MantCap

CloseExp(i, j) == Abs(heap[i].value.e - heap[j].value.e) <= ExpGap

Add ==
  /\ CanAllocate
  /\ \E i \in Instances, j \in Instances :
       /\ SmallMant(i) /\ SmallMant(j) /\ CloseExp(i, j)
       /\ ReturnsNew(add(heap[i], heap[j]),
                     Last("add", i, j, NoBase, undefined, NoDecimals, 0, ""))
       /\ UNCHANGED call

Minus ==
  /\ CanAllocate
  /\ \E i \in Instances, j \in Instances :
       /\ SmallMant(i) /\ SmallMant(j) /\ CloseExp(i, j)
       /\ ReturnsNew(minus(heap[i], heap[j]),
                     Last("minus", i, j, NoBase, undefined, NoDecimals, 0, ""))
       /\ UNCHANGED call

Times ==
  /\ CanAllocate
  /\ \E i \in Instances, j \in Instances :
       /\ SmallMant(i) /\ SmallMant(j)
       /\ ReturnsNew(times(heap[i], heap[j]),
                     Last("times", i, j, NoBase, undefined, NoDecimals, 0, ""))
       /\ UNCHANGED call

Divide ==
  /\ CanAllocate
  /\ \E i \in Instances, j \in Instances :
       /\ SmallMant(i) /\ SmallMant(j) /\ Divisible(heap[i].value, heap[j].value)
       /\ ReturnsNew(divide(heap[i], heap[j]),
                     Last("divide", i, j, NoBase, undefined, NoDecimals, 0, ""))
       /\ UNCHANGED call

\* `other` records the rate: 0 for undefined, otherwise the number passed;
\* `base` records invert as 1.
ApplyConversionRate ==
  /\ CanAllocate
  /\ \E i \in Instances, rate \in {0, 2}, invert \in BOOLEAN :
       LET r == applyConversionRate(heap[i],
                  IF rate = 0 THEN Undefined ELSE NumberValue(Chars("2")), invert)
           l == Last("applyConversionRate", i, rate, IF invert THEN 1 ELSE 0,
                     undefined, NoDecimals, 0, "")
       IN  /\ SmallMant(i)
           /\ IF r.err # "" THEN Throws(l, r.err) ELSE ReturnsNew(r.num, l)
           /\ UNCHANGED call

NumericNext ==
  \/ NumericNew
  \/ ToBase
  \/ SetDenomination
  \/ ToDenomination
  \/ Round
  \/ Add
  \/ Minus
  \/ Times
  \/ Divide
  \/ ApplyConversionRate

NumericSpec == Init /\ [][NumericNext]_vars

\* ------------------------------------------------------------------------
\* The constructor on raw input of every type
\* ------------------------------------------------------------------------

ConstructValues ==
  {StringValue(Chars(str)) :
     str \in {"", "2", "10", "100", "0x10", "-10", "1-0", "1.8", "0x1.8", "ff", "g", ".5",
              "-0.5", "0.5", "12abc", "abc", "Infinity", "1.25", "-2.6"}}
  \cup {NumberValue(Chars(str)) : str \in {"10", "15", "-10", "1.25", "-2.6", "0.5"}}
  \cup {BigNumberValue([m |-> 495, e |-> 0 - 3]), BigNumberValue([m |-> 15, e |-> 8]),
        BNValue([m |-> 15, e |-> 0]), Undefined}

\* new Numeric(value, base, denomination); `call` keeps the arguments
Construct ==
  /\ call.fn = ""
  /\ \E value \in ConstructValues, base \in {NoBase} \cup Bases, denomination \in {undefined, WEI} :
       LET n == Numeric(value, base, denomination)
           l == Last("new", 0, 0, base, denomination, NoDecimals, 0, "")
       IN  /\ IF n.err # "" THEN Throws(l, n.err) ELSE ReturnsNew(n.num, l)
           /\ call' = Call("Numeric", value, Undefined, base, NoBase, NoOptions, Raise(""))

\* the instance is dropped
Release ==
  /\ call.fn = "Numeric"
  /\ call' = NoCall
  /\ heap' = <<>>
  /\ constructed' = <<>>
  /\ last' = NoLast

ConstructNext ==
  \/ Construct
  \/ Release

ConstructSpec == Init /\ [][ConstructNext]_vars

\* ------------------------------------------------------------------------
\* Properties
\* ------------------------------------------------------------------------

\* What each facade entry point hands to `converter`
ConverterValue ==
  IF call.fn = "conversionUtil"
    THEN (IF IsFalsy(call.a) THEN StringValue(<<"0">>) ELSE call.a)
  ELSE BigNumberValue(Arith(call.fn, getBigNumber(call.a, call.aBase).v,
                            getBigNumber(call.b, call.bBase).v))

ConverterOptions ==
  IF call.fn = "conversionUtil"
    THEN [call.o EXCEPT !.toCurrency = IF call.o.toCurrency = undefined
                                         THEN call.o.fromCurrency ELSE call.o.toCurrency,
                        !.roundDown = NoDecimals]
  ELSE call.o

\* The call reached `converter`.
ReachedConverter ==
  \/ /\ call.fn = "conversionUtil"
     /\ ~(call.o.fromCurrency # ConverterOptions.toCurrency /\ IsFalsy(call.o.conversionRate))
  \/ /\ call.fn \in Ops
     /\ isValidBase(call.aBase) /\ isValidBase(call.bBase)
     /\ getBigNumber(call.a, call.aBase).ok /\ getBigNumber(call.b, call.bBase).ok

\* The seven steps in the order the specification gives them.
PipelineSteps(value, o) ==
  LET parsed == Numeric(value, NumericBaseOf(o.fromNumericBase), undefined)
      v1 == IF o.fromDenomination # undefined
              THEN toNormalizedDenomination(o.fromDenomination, parsed.num.value)
            ELSE parsed.num.value
      given == Numeric(o.conversionRate, 10, undefined).num.value
      rate == IF o.invertConversionRate THEN BN_div(One, given) ELSE given
      v2 == IF o.fromCurrency # o.toCurrency THEN BN_times(v1, rate) ELSE v1
      v3 == IF o.toDenomination # undefined
              THEN toSpecifiedDenomination(o.toDenomination, v2)
            ELSE v2
      v4 == IF o.numberOfDecimals > 0 THEN BN_round(v3, o.numberOfDecimals, ROUND_HALF_DOWN)
            ELSE v3
      v5 == IF o.roundDown > 0 THEN BN_round(v4, o.roundDown, ROUND_DOWN) ELSE v4
  IN  IF parsed.err # "" THEN Raise(parsed.err)
      ELSE IF o.fromCurrency # o.toCurrency /\ IsNullish(o.conversionRate)
        THEN Raise("MissingRateError")
      ELSE IF o.toNumericBase = undefined THEN ReturnBigNumber(v5)
      ELSE ReturnString(BN_toString(v5, NumericBaseOf(o.toNumericBase)))

\* C1: a call that reaches `converter` returns the result of the seven steps
\* in order: parse, normalize iff fromDenomination is set, rate iff the
\* currencies differ, denominate (with its rounding) iff toDenomination is set,
\* round HalfDown, round Down, serialize.
C1_PipelineAsSpecified ==
  ReachedConverter => call.result = PipelineSteps(ConverterValue, ConverterOptions)

\* the exponents of the units in the claim: e(WEI) = 0, e(GWEI) = 9, e(ETH) = 18
UnitExponent(u) == CASE u = WEI -> 0 [] u = GWEI -> 9 [] u = ETH -> 18

UnitDecimals(t) == IF t = WEI THEN 0 ELSE 9

\* C2: toDenomination from a set unit u to a different unit t yields
\* magnitude * 10^(e(u) - e(t)) rounded to the nearest value with 0 decimals
\* (WEI) or 9 decimals (GWEI, ETH).
C2_ExactScalingThenUnitRounding ==
  (last.op = "toDenomination" /\ last.ret # 0 /\ last.ret # last.this
     /\ heap[last.this].denomination # undefined)
  => LET x == heap[last.this]
         shift == UnitExponent(x.denomination) - UnitExponent(last.denomination)
     IN  heap[last.ret].value =
           BN_round(Canon(x.value.m, x.value.e + shift),
                    UnitDecimals(last.denomination), ROUND_HALF_UP)

\* C3: every instance keeps the magnitude, base and denomination it was
\* constructed with, whatever methods are called.
C3_Immutable == \A i \in Instances : heap[i] = constructed[i]

\* C4: toDenomination on a Numeric without a denomination throws and returns
\* no value.
C4_UnsetDenominationThrows ==
  (last.op = "toDenomination" /\ heap[last.this].denomination = undefined)
  => (last.err = "StateError" /\ last.ret = 0)

\* toCurrency as conversionUtil defaults it
DefaultedToCurrency ==
  IF call.o.toCurrency = undefined THEN call.o.fromCurrency ELSE call.o.toCurrency

\* C5: conversionUtil with differing currencies and no conversionRate
\* (undefined or null) returns the number 0 without raising, whatever the value
\* and the other options; with a conversionRate it returns what `converter`
\* returns.
C5_MissingRateReturnsZero ==
  call.fn = "conversionUtil"
  => /\ (call.o.fromCurrency # DefaultedToCurrency /\ IsNullish(call.o.conversionRate))
          => call.result = ReturnNumber(Zero)
     /\ ~IsNullish(call.o.conversionRate)
          => call.result = converter(ConverterValue, ConverterOptions)

\* C5 witness: an unparseable value, differing currencies, a null rate: 0
C5_Witness ==
  /\ call.fn = "conversionUtil"
  /\ call.a = StringValue(Chars("g"))
  /\ call.o.fromNumericBase = "dec"
  /\ call.o.fromCurrency = "ETH" /\ call.o.toCurrency = "USD"
  /\ call.o.conversionRate = Null
  /\ call.result = ReturnNumber(Zero)

\* The operands and bases of a two-operand helper call are valid.
ValidOperands ==
  /\ call.fn \in Ops
  /\ isValidBase(call.aBase) /\ isValidBase(call.bBase)
  /\ getBigNumber(call.a, call.aBase).ok /\ getBigNumber(call.b, call.bBase).ok

\* C6: the two-operand helpers, with valid bases, differing currencies and no
\* conversionRate (undefined or null), throw and return no value.
C6_HelpersRequireRate ==
  (ValidOperands /\ call.o.fromCurrency # call.o.toCurrency
     /\ IsNullish(call.o.conversionRate))
  => call.result = Raise("MissingRateError")

\* C6 witness: addCurrencies from ETH to USD with a null rate has thrown
C6_Witness ==
  /\ ValidOperands /\ call.fn = "add"
  /\ call.o.fromCurrency = "ETH" /\ call.o.toCurrency = "USD"
  /\ call.o.conversionRate = Null
  /\ call.result.err = "MissingRateError"

\* fromCurrency as getValueFromWeiHex defaults it
DefaultedFromCurrency ==
  IF call.o.fromCurrency = undefined THEN ETH ELSE call.o.fromCurrency

\* The call is one of the two helpers that apply a rate through
\* Numeric.applyConversionRate, it takes the rate step, no rate was given
\* and its value parses.
RateStepWithoutRate ==
  /\ IsNullish(call.o.conversionRate)
  /\ \/ /\ call.fn = "getValueFromWeiHex"
        /\ DefaultedFromCurrency # call.o.toCurrency
        /\ Numeric(call.a, 16, WEI).err = ""
     \/ /\ call.fn = "getWeiHexFromDecimalValue"
        /\ call.o.fromCurrency # ETH
        /\ Numeric(call.a, 10, call.o.fromDenomination).err = ""

\* C7 as stated: every path but the conversionUtil guard throws when the
\* currencies differ and no rate is supplied, getValueFromWeiHex and
\* getWeiHexFromDecimalValue included.
C7_EveryPathRequiresRate ==
  RateStepWithoutRate => call.result.err = "MissingRateError"

RateOne == NumberValue(<<"1">>)

\* C7 as amended: the helpers that go through `converter` throw; the two
\* helpers that call Numeric.applyConversionRate do not: without a rate they
\* return what they return for a conversionRate of 1.
C7_RateDefaultsToOne ==
  /\ (ValidOperands /\ call.o.fromCurrency # call.o.toCurrency
        /\ IsNullish(call.o.conversionRate))
       => call.result.err = "MissingRateError"
  /\ (RateStepWithoutRate /\ call.fn = "getValueFromWeiHex")
       => /\ call.result.k = "string"
          /\ call.result = getValueFromWeiHex(call.a, call.o.fromCurrency, call.o.toCurrency,
                             RateOne, call.o.numberOfDecimals, call.o.toDenomination)
  /\ (RateStepWithoutRate /\ call.fn = "getWeiHexFromDecimalValue")
       => /\ call.result.k = "string"
          /\ call.result = getWeiHexFromDecimalValue(call.a, RateOne, call.o.fromDenomination,
                             call.o.fromCurrency, call.o.invertConversionRate)

\* C7 witness: getValueFromWeiHex of 0x10 wei to USD with the rate omitted
\* returned '16'
C7_Witness ==
  /\ call.fn = "getValueFromWeiHex"
  /\ call.a = StringValue(Chars("10"))
  /\ call.o.fromCurrency = undefined /\ call.o.toCurrency = "USD"
  /\ call.o.conversionRate = Undefined
  /\ call.o.toDenomination = WEI
  /\ call.result = ReturnString(<<"1", "6">>)

\* C8: conversionUtil with roundDown = n > 0 returns the result without
\* roundDown truncated toward zero at n decimals.
C8_RoundDownTruncates ==
  (call.fn = "conversionUtil" /\ call.o.roundDown > 0 /\ call.result.k = "BigNumber")
  => call.result.v =
       BN_round(conversionUtil(call.a, [call.o EXCEPT !.roundDown = NoDecimals]).v,
                call.o.roundDown, ROUND_DOWN)

\* the same call with toCurrency given as fromCurrency
WithToCurrencyGiven ==
  LET o == [call.o EXCEPT !.toCurrency = call.o.fromCurrency]
  IN  IF call.fn = "conversionUtil" THEN conversionUtil(call.a, o)
      ELSE opCurrencies(call.fn, call.a, call.b, call.aBase, call.bBase, o)

\* C9: in conversionUtil and in the two-operand helpers an omitted toCurrency
\* defaults to fromCurrency: the call needs no rate and returns what the same
\* call with toCurrency = fromCurrency returns.
C9_ToCurrencyDefaultsToFromCurrency ==
  ((call.fn = "conversionUtil" \/ ValidOperands)
     /\ call.o.fromCurrency # undefined /\ call.o.toCurrency = undefined)
  => /\ call.result.err # "MissingRateError"
     /\ call.result = WithToCurrencyGiven

\* the numeral s (digits only) read in the given base
RECURSIVE NumeralValue(_, _)
NumeralValue(s, base) ==
  IF s = <<>> THEN 0
  ELSE NumeralValue(SubSeq(s, 1, Len(s) - 1), base) * base + DigitVal(s[Len(s)])

\* v is x op y
IsArithResult(op, x, y, v) ==
  CASE op = "add" -> v = Canon(x + y, 0)
    [] op = "subtract" -> v = Canon(x - y, 0)
    [] op = "multiply" -> v = Canon(x * y, 0)
    [] op = "divide" -> BN_times(v, Canon(y, 0)) = Canon(x, 0)

Rescaled ==
  /\ last.op = "toDenomination" /\ last.err = "" /\ last.ret # last.this
  /\ heap[last.this].denomination # undefined

\* magnitude / 10^from * 10^to, with the unit rounding of the target
Scaled(magnitude, from, to, t) ==
  BN_round(BN_times(BN_div(magnitude, [m |-> 1, e |-> from]), [m |-> 1, e |-> to]),
           UnitDecimals(t), ROUND_HALF_UP)

MultiplierExponent(u) == CASE u = WEI -> 18 [] u = GWEI -> 9 [] u = ETH -> 0

IsScaled(r, m, e) ==
  IF m = 0 THEN r = Zero ELSE r.e >= e /\ r.m * Pow10(r.e - e) = m

\* |r - v|
Distance(r, v) ==
  LET d == IF r.m = 0 THEN v ELSE IF v.m = 0 THEN r ELSE BN_minus(r, v)
  IN  [m |-> Abs(d.m), e |-> d.e]

\* r is x / y exactly
IsExactQuotient(r, x, y) == BN_times(r, y) = x

\* r is x / y rounded half up to DECIMAL_PLACES decimals: r has no more
\* decimals, r * y is within |y| * 10^-DECIMAL_PLACES / 2 of x, and a tie is
\* rounded away from zero
IsRoundedQuotient(r, x, y) ==
  LET ry == BN_times(r, y)
      half == Canon(5 * Abs(y.m), (y.e - DECIMAL_PLACES) - 1)
      c == BN_comparedTo(Distance(ry, x), half)
  IN  /\ r.m = 0 \/ r.e >= 0 - DECIMAL_PLACES
      /\ c <= 0
      /\ c = 0 => Abs(BN_comparedTo(ry, Zero) + BN_comparedTo(ry, x)) = 2

\* the magnitude r is the sum, difference or product of the magnitudes x and y
IsPlainArithmetic(op, r, x, y) ==
  LET e == Min(x.e, y.e)
      xm == x.m * Pow10(x.e - e)
      ym == y.m * Pow10(y.e - e)
  IN  CASE op = "add" -> IsScaled(r, xm + ym, e)
        [] op = "minus" -> IsScaled(r, xm - ym, e)
        [] op = "times" -> IsScaled(r, x.m * y.m, x.e + y.e)
        [] op = "divide" -> TRUE

\* a call of add, minus, times or divide: the result has the receiver's base,
\* no denomination after add and minus and the receiver's after times and
\* divide, and the sum, difference or product of the two magnitudes
ArithmeticOnReceiver ==
  LET x == heap[last.this]
      y == heap[last.other]
      r == heap[last.ret]
  IN  /\ IsPlainArithmetic(last.op, r.value, x.value, y.value)
      /\ r.base = x.base
      /\ r.denomination =
           IF last.op \in {"add", "minus"} THEN undefined ELSE x.denomination

\* C13 as stated: x.add(y), x.minus(y), x.times(y) and x.divide(y) return a
\* Numeric whose magnitude is the arithmetic result on the two magnitudes (the
\* exact quotient for divide), whose base is x's, and whose denomination is
\* unset for add and minus and x's for times and divide.
C13_ArithmeticOnMagnitudes ==
  last.op \in {"add", "minus", "times", "divide"}
  => /\ ArithmeticOnReceiver
     /\ last.op = "divide"
          => IsExactQuotient(heap[last.ret].value, heap[last.this].value,
                             heap[last.other].value)

\* C13 amended: as stated for add, minus and times; x.divide(y) has the
\* quotient rounded half up to 20 decimal places, the exact quotient when it
\* has no more decimals; nothing of y but its magnitude is used.
C13_QuotientRoundedTo20Decimals ==
  last.op \in {"add", "minus", "times", "divide"}
  => /\ ArithmeticOnReceiver
     /\ last.op = "divide"
          => IsRoundedQuotient(heap[last.ret].value, heap[last.this].value,
                               heap[last.other].value)

\* C13 witness: 0.000000000495 in base 16 and GWEI, divided by 600000000 in
\* base 10 and WEI, is 0.00000000000000000083 in base 16 and GWEI (the exact
\* quotient has 21 decimals, 825e-21)
C13_Witness ==
  /\ last.op = "divide" /\ last.this # last.other
  /\ heap[last.this] = NumericOf([m |-> 495, e |-> 0 - 12], 16, GWEI)
  /\ heap[last.other] = NumericOf([m |-> 6, e |-> 8], 10, WEI)
  /\ heap[last.ret] = NumericOf([m |-> 83, e |-> 0 - 20], 16, GWEI)

\* r is x rounded to p > 0 decimals in the given mode: r has at most p
\* decimals and the sign of x; under ROUND_DOWN it is the nearest such value
\* toward zero; under ROUND_HALF_DOWN it is a nearest such value, the one
\* toward zero on a tie.  A mantissa is below 2^31, so a value 10 or more
\* digits below the last kept decimal rounds to 0 in both modes.
IsRounded(r, x, p, mode) ==
  IF 0 - x.e <= p THEN r = x
  ELSE IF (0 - x.e) - p >= 10 THEN r = Zero
  ELSE LET step == Pow10((0 - x.e) - p)
           xm == Abs(x.m)
           rm == IF r.m = 0 THEN 0 ELSE Abs(r.m) * Pow10(r.e - x.e)
       IN  /\ r.m = 0 \/ (r.e >= 0 - p /\ Sgn(r.m) = Sgn(x.m))
           /\ rm % step = 0
           /\ mode = ROUND_DOWN => (rm <= xm /\ xm - rm < step)
           /\ mode = ROUND_HALF_DOWN
                => /\ 2 * Abs(xm - rm) <= step
                   /\ 2 * Abs(xm - rm) = step => rm < xm

ParsedString == call.fn = "Numeric" /\ call.a.t = "string" /\ call.aBase \in Bases

Unsigned(s) == IF s # <<>> /\ s[1] = "-" THEN Tail(s) ELSE s

\* an optional leading "-", an optional "0x", then one or more hex digits
IsHexNumeral(s) ==
  LET u == Unsigned(s)
      digits == IF HasHexPrefix(u) THEN SubSeq(u, 3, Len(u)) ELSE u
  IN  digits # <<>> /\ AllIn(digits, HexDigitChars)

\* a hexadecimal numeral, or two of them around a "."
IsValidHexadecimal(s) ==
  \/ IsHexNumeral(s)
  \/ /\ Len(Split(s, ".")) = 2
     /\ \A i \in 1..2 : IsHexNumeral(Split(s, ".")[i])

\* an optional leading "-", then digits with an optional fraction: "12",
\* "0.5", ".5"
IsValidDecimal(s) ==
  LET parts == Split(Unsigned(s), ".")
  IN  /\ Len(parts) \in {1, 2}
      /\ \A i \in 1..Len(parts) : AllIn(parts[i], DecDigitChars)
      /\ parts[Len(parts)] # <<>>

\* C15: a string is parsed exactly when it is a valid numeral of the declared
\* base, and the constructor throws the parse error otherwise: under base 16
\* a hex numeral with "-" only in front, or two hex numerals around a ".";
\* under base 10 a finite decimal numeral, optionally signed, optionally
\* fractional.
C15_AcceptsExactlyValidNumerals ==
  ParsedString
  => /\ last.err = "" <=> IF call.aBase = 16 THEN IsValidHexadecimal(call.a.s)
                          ELSE IsValidDecimal(call.a.s)
     /\ last.err \in {"", "ParseError"}

\* new Numeric(s, 16) accepted the string s
AcceptedHex == ParsedString /\ call.aBase = 16 /\ last.err = ""

\* new Numeric('-' + s, 16) is the negation of the accepted new Numeric(s, 16)
NegationParses ==
  LET n == Numeric(StringValue(<<"-">> \o call.a.s), 16, undefined)
  IN  n.err = "" /\ n.num.value = BN_negated(heap[1].value)

\* v * 16^k
RECURSIVE TimesPow16(_, _)
TimesPow16(v, k) == IF k <= 0 THEN v ELSE TimesPow16(BN_times(v, [m |-> 16, e |-> 0]), k - 1)

\* the magnitude v is the unsigned numeral s, "0x" stripped, read in base 16:
\* with k digits after the ".", v * 16^k is the digits read as an integer
IsHexReading(v, s) ==
  LET parts == Split(IF HasHexPrefix(s) THEN SubSeq(s, 3, Len(s)) ELSE s, ".")
      k == IF Len(parts) = 2 THEN Len(parts[2]) ELSE 0
      digits == IF Len(parts) = 2 THEN parts[1] \o parts[2] ELSE parts[1]
  IN  TimesPow16(v, k) = Canon(NumeralValue(digits, 16), 0)

RECURSIVE SignificantDigits(_)
SignificantDigits(s) ==
  IF s # <<>> /\ s[1] = "0" THEN SignificantDigits(Tail(s)) ELSE Len(s)

\* a string of decimal digits is accepted under base 10 too, as its base-10
\* reading, which differs from v when it has more than one significant digit
DigitsReadInBothBases(v, s) ==
  (s # <<>> /\ AllIn(s, DecDigitChars))
  => LET n == Numeric(StringValue(s), 10, undefined)
     IN  /\ n.err = "" /\ n.num.value = Canon(NumeralValue(s, 10), 0)
         /\ SignificantDigits(s) > 1 => n.num.value # v

\* C16 as stated: every string s accepted under base 16, signed or not, has
\* '-' + s accepted as its negation.
C16_NegationOfEveryAccepted == AcceptedHex => NegationParses

\* C16 amended: every string s without a "-" accepted under base 16 parses to
\* the base-16 reading of s with "0x" stripped, '-' + s parses to its
\* negation, and a string of decimal digits parses under base 10 to its
\* base-10 reading, a different magnitude when it has more than one
\* significant digit.
C16_HexReadingOfUnsigned ==
  (AcceptedHex /\ \A i \in 1..Len(call.a.s) : call.a.s[i] # "-")
  => /\ IsHexReading(heap[1].value, call.a.s)
     /\ NegationParses
     /\ DigitsReadInBothBases(heap[1].value, call.a.s)

\* C16 witness: '100' under base 16 is 256
C16_Witness ==
  /\ AcceptedHex /\ call.a.s = <<"1", "0", "0">>
  /\ heap[1].value = [m |-> 256, e |-> 0]

\* C17: new Numeric(value) with no base keeps the magnitude of a BigNumber or
\* BN value, throws the parse error for a string or a number, and gives 0 in
\* base 10 for an absent value; a BigNumber or BN given with a base keeps its
\* magnitude.
C17_ConstructWithoutBase ==
  call.fn = "Numeric"
  => /\ call.a.t \in {"BigNumber", "BN"}
          => (last.err = "" /\ heap[1].value = call.a.v)
     /\ (call.a.t \in {"string", "number"} /\ call.aBase = NoBase)
          => last.err = "ParseError"
     /\ (call.a.t = "undefined" /\ call.aBase = NoBase)
          => (last.err = "" /\ heap[1].value = Zero /\ heap[1].base = 10)

\* a comparison helper was called on two props that `converter` converts
ComparedBoth ==
  /\ call.fn \in {"conversionGreaterThan", "conversionLessThan", "conversionMax",
                  "conversionGTE", "conversionLTE"}
  /\ converter(call.a.value, call.a.o).err = ""
  /\ converter(call.b.value, call.b.o).err = ""

\* the sign of mA - mB, for the magnitudes mA and mB `converter` gives
ComparedSign ==
  Sgn(BN_minus(converter(call.a.value, call.a.o).v, converter(call.b.value, call.b.o).v).m)

\* the raw value as a helper returns it
RawResult(value) == [k |-> value.t, v |-> value.v, s |-> value.s, err |-> ""]

\* C18: with mA and mB the magnitudes `converter` gives for the two props,
\* conversionGreaterThan is mA > mB, conversionLessThan is mA < mB,
\* conversionGTE is mA >= mB, conversionLTE is mA <= mB, and conversionMax
\* returns the raw `value` of the first props when mA > mB and of the second
\* otherwise, ties included.
C18_ComparisonsOfConvertedMagnitudes ==
  ComparedBoth
  => call.result =
       CASE call.fn = "conversionGreaterThan" -> ReturnBoolean(ComparedSign > 0)
         [] call.fn = "conversionLessThan" -> ReturnBoolean(ComparedSign < 0)
         [] call.fn = "conversionGTE" -> ReturnBoolean(ComparedSign >= 0)
         [] call.fn = "conversionLTE" -> ReturnBoolean(ComparedSign <= 0)
         [] call.fn = "conversionMax" ->
              IF ComparedSign > 0 THEN RawResult(call.a.value) ELSE RawResult(call.b.value)

\* C18 witness: conversionMax of '10' in hex and '0x10' in hex, both 16,
\* returns the second raw value, '0x10'
C18_Witness ==
  /\ ComparedBoth /\ call.fn = "conversionMax"
  /\ call.a.value = StringValue(<<"1", "0">>) /\ call.a.o.fromNumericBase = "hex"
  /\ call.b.value = StringValue(<<"0", "x", "1", "0">>) /\ call.b.o.fromNumericBase = "hex"
  /\ call.a.o.toCurrency = undefined /\ call.b.o.toCurrency = undefined
  /\ call.result = RawResult(StringValue(<<"0", "x", "1", "0">>))

\* half of the coarser rounding step of the units d1 and d2, in unit d1: the
\* steps are 1 WEI for WEI (0 decimals) and GWEI (9 decimals), and 10^9 WEI
\* for ETH (9 decimals)
HalfCoarserStep(d1, d2) ==
  [m |-> 5, e |-> (IF ETH \in {d1, d2} THEN 9 ELSE 0) - 1 - UnitExponent(d1)]

\* C19: toDenomination to the receiver's own unit returns the receiver, not
\* rounded; and converting v from its unit d1 to another unit d2 and back
\* gives denomination d1 and a magnitude within half of the coarser rounding
\* step of the two units from v's.
C19_BackWithinHalfStep ==
  (last.op = "toDenomination" /\ last.err = "")
  => /\ heap[last.this].denomination = last.denomination => last.ret = last.this
     /\ \A i \in Instances :
          (/\ heap[i].denomination = last.denomination
           /\ heap[last.this].denomination \notin {undefined, last.denomination}
           /\ heap[last.this] = toDenomination(heap[i], heap[last.this].denomination).num)
          => /\ heap[last.ret].denomination = last.denomination
             /\ BN_comparedTo(Distance(heap[last.ret].value, heap[i].value),
                              HalfCoarserStep(last.denomination,
                                              heap[last.this].denomination)) <= 0

\* C20: toBase(b) returns the magnitude and the denomination of the receiver
\* in base b; converting back to the first base gives the first magnitude;
\* the result has the toPrefixedHexString of the receiver, and the toString
\* of every instance of that magnitude and base, whatever its denomination.
C20_BaseOnlySerializes ==
  last.op = "toBase"
  => /\ heap[last.ret].value = heap[last.this].value
     /\ heap[last.ret].denomination = heap[last.this].denomination
     /\ heap[last.ret].base = last.base
     /\ \A i \in Instances :
          (heap[last.this] = toBase(heap[i], heap[last.this].base)
             /\ last.base = heap[i].base)
          => heap[last.ret].value = heap[i].value
     /\ toPrefixedHexString(heap[last.ret]) = toPrefixedHexString(heap[last.this])
     /\ \A j \in Instances :
          (heap[j].value = heap[last.ret].value /\ heap[j].base = last.base)
          => toString(heap[j]) = toString(heap[last.ret])

\* C20 witness: 600000000 in base 16 converted to base 10 and back to base
\* 16: the magnitude is the same, the decimal string is '600000000' and the
\* prefixed hex string is '0x23c34600' in either base
C20_Witness ==
  /\ last.op = "toBase" /\ last.base = 16 /\ last.ret = 3 /\ last.this = 2
  /\ heap[1].base = 16 /\ heap[2] = toBase(heap[1], 10)
  /\ heap[1].value = [m |-> 6, e |-> 8]
  /\ heap[3].value = [m |-> 6, e |-> 8]
  /\ toString(heap[2]) = <<"6", "0", "0", "0", "0", "0", "0", "0", "0">>
  /\ toPrefixedHexString(heap[2]) = <<"0", "x", "2", "3", "c", "3", "4", "6", "0", "0">>
  /\ toPrefixedHexString(heap[3]) = toPrefixedHexString(heap[2])

\* ------------------------------------------------------------------------
\* C21: the hexadecimal helpers
\* ------------------------------------------------------------------------

HexHelperCalled == call.fn \in {"addHexes", "subtractHexes", "sumHexes"}

\* an operand, or a returned string, read with declared base 16
ReadAsHex(value) == Numeric(value, 16, undefined)

ValidHexOperands ==
  ReadAsHex(call.a).err = "" /\ \A i \in 1..Len(call.b) : ReadAsHex(call.b[i]).err = ""

RECURSIVE SumOfHexes(_, _)
SumOfHexes(acc, rest) ==
  IF rest = <<>> THEN acc
  ELSE SumOfHexes(BN_plus(acc, ReadAsHex(Head(rest)).num.value), Tail(rest))

\* a + b + ... or a - b of the operands' parsed magnitudes
HexArithmetic ==
  IF call.fn = "subtractHexes"
    THEN BN_minus(ReadAsHex(call.a).num.value, ReadAsHex(call.b[1]).num.value)
  ELSE SumOfHexes(ReadAsHex(call.a).num.value, call.b)

ReadsBackAs(s, v) ==
  ReadAsHex(StringValue(s)).err = "" /\ ReadAsHex(StringValue(s)).num.value = v

C21_ReadsBack ==
  HexHelperCalled /\ ValidHexOperands =>
    call.result.k = "string" /\ ReadsBackAs(call.result.s, HexArithmetic)

C21_Prefix ==
  HexHelperCalled /\ ValidHexOperands =>
    call.result.k = "string" /\ (HasHexPrefix(call.result.s) <=> call.fn = "sumHexes")

C21_SumIsAdd ==
  call.fn = "sumHexes" /\ ValidHexOperands /\ Len(call.b) = 1 =>
    LET added == addHexes(call.a, call.b[1])
    IN  /\ added.k = "string" /\ call.result.k = "string"
        /\ ReadAsHex(StringValue(added.s)).err = ""
        /\ ReadsBackAs(call.result.s, ReadAsHex(StringValue(added.s)).num.value)

\* C21: for every list of valid hexadecimal operands, negative ones and
\* results below zero included, the string sumHexes, addHexes or subtractHexes
\* returns reads back in base 16 as the sum (the difference for
\* subtractHexes) of the operands' parsed magnitudes, it is '0x'-prefixed for
\* sumHexes and unprefixed for the other two, and sumHexes(a, b) denotes the
\* magnitude addHexes(a, b) denotes.
C21_HexHelpersReadBack == C21_ReadsBack /\ C21_Prefix /\ C21_SumIsAdd

\* the part of C21 that leaves out the sums below zero
C21_ReadsBackUnlessNegativeSum ==
  HexHelperCalled /\ ValidHexOperands /\ ~(call.fn = "sumHexes" /\ HexArithmetic.m < 0) =>
    call.result.k = "string" /\ ReadsBackAs(call.result.s, HexArithmetic)

C21_NegativeSum ==
  /\ call.fn = "sumHexes" /\ call.a = StringValue(Chars("-10"))
  /\ call.b = <<StringValue(Chars("2"))>>
  /\ call.result = ReturnString(<<"0", "x", "-", "e">>)
  /\ ReadsBackAs(call.result.s, [m |-> 14, e |-> 0])

\* ------------------------------------------------------------------------
\* C22: the parsers of a number primitive
\* ------------------------------------------------------------------------

\* the constructor was given a number primitive and a base
NumberConstructed == call.fn = "Numeric" /\ call.a.t = "number" /\ call.aBase \in Bases

\* the constructor's outcome agrees with the outcome on the number's decimal
\* text and with the facade's getBigNumber on the number
AgreesWithTextAndOperand ==
  LET ofText == Numeric(StringValue(call.a.s), call.aBase, undefined)
      operand == getBigNumber(call.a, call.aBase)
  IN  IF last.err # "" THEN ofText.err # "" /\ ~operand.ok
      ELSE /\ ofText.err = "" /\ ofText.num.value = heap[1].value
           /\ operand.ok /\ operand.v = heap[1].value

\* the decimal text of -n, given that of n
NegatedText(s) == IF s[1] = "-" THEN Tail(s) ELSE <<"-">> \o s

NegationNegates ==
  LET opposite == Numeric(NumberValue(NegatedText(call.a.s)), call.aBase, undefined)
  IN  last.err = "" => opposite.err = "" /\ opposite.num.value = BN_negated(heap[1].value)

\* C22: for a number primitive n, its decimal text s and a base in {10, 16},
\* new Numeric(n, base), new Numeric(s, base) and getBigNumber(n, base) all
\* fail or all yield the same magnitude, and under base 16 the magnitude of -n
\* is the negation of the magnitude of n.
C22_ParsersAgree ==
  NumberConstructed => AgreesWithTextAndOperand /\ (call.aBase = 16 => NegationNegates)

\* the part of C22 in base 10, and in base 16 on the non-negative integers
C22_ParsersAgreeOnNaturals ==
  NumberConstructed /\ (call.aBase = 10 \/ AllIn(call.a.s, DecDigitChars))
    => AgreesWithTextAndOperand

C22_NegativeNumberInHex ==
  /\ NumberConstructed /\ call.aBase = 16 /\ call.a.s = Chars("-10")
  /\ last.err = "" /\ heap[1].value = [m |-> 0 - 1, e |-> 1]
  /\ Numeric(StringValue(call.a.s), 16, undefined).num.value = [m |-> 0 - 16, e |-> 0]
  /\ getBigNumber(call.a, 16).v = [m |-> 0 - 16, e |-> 0]

C22_FractionalNumberInHex ==
  /\ NumberConstructed /\ call.aBase = 16 /\ call.a.s = Chars("1.25")
  /\ last.err = "" /\ heap[1].value = [m |-> 125, e |-> 0 - 2]
  /\ Numeric(StringValue(call.a.s), 16, undefined).num.value = [m |-> 114453125, e |-> 0 - 8]

====
